---- MODULE Spec2Model ----
(***************************************************************************)
(* Model of the acquisition/transport pipeline of src/src/main.rs:         *)
(*   - run_high: the Sampler task on the interrupt executor (UART4),       *)
(*   - main: the bind / handshake / Transmitter loops in thread mode,      *)
(*   - the statics ADC_DONE, ACT_BUFFER, BUFFER1, BUFFER2 shared by both.  *)
(* The transport (UdpSocket) and the analog source (Adc) are collaborators *)
(* and are modelled by nondeterministic results.                           *)
(***************************************************************************)
EXTENDS Integers, Sequences, FiniteSets, TLC

(* ---------------------------- constants -------------------------------- *)

SYN == 22
EOT == 4
\* ADC_BUFFER_SIZE is 1024 in the source; the model keeps the loops and the
\* indexing and shrinks the batch size.
ADC_BUFFER_SIZE == 2
UDP_BUFFER_SIZE == ADC_BUFFER_SIZE * 2
ADC_CYCLE == 5925

\* bounds of the model
MaxBatch == 2      \* Sampler cycles explored
MaxSend  == 2      \* datagrams explored
MaxBind  == 2      \* bind attempts explored

\* u64 arithmetic of line 158: TLC integers are 32 bit wide, so the modulus
\* 2^64 is represented by 2^30; the comparison t < ADC_CYCLE is the same for
\* every modulus above 2 * (largest elapsed time).
U64Modulus == 1073741824

\* values the analog source returns (12 bit converter, u16 result)
SampleValues == {0, 260}
\* durations (us) of one Sampler cycle: the busy delay alone, a full cycle,
\* more than a cycle
ElapsedValues == {175, 5925, 6000}

Hosts == {"hostA", "hostB"}
\* datagrams a client may send
Datagrams == { <<>>, <<SYN>>, <<0, 0>>, <<0, EOT>>, <<SYN, 0>>,
               <<SYN, EOT>>, <<SYN, EOT, 0>> }

None  == <<>>       \* Option::None of BUFFER1 / BUFFER2
RxTag == -1         \* provenance of bytes written by recv_from
NoHost == "none"
NoRx   == [data |-> <<>>, from |-> NoHost]
NoTake == [batch |-> 0, pending |-> 0, samples |-> <<>>]
NoCycle == [elapsed |-> 0, wait |-> 0]

(* ------------------------------ state ---------------------------------- *)

VARIABLES
    BUFFER1, BUFFER2,   \* Mutex<RefCell<Option<[u16; ADC_BUFFER_SIZE]>>>
    tag1, tag2,         \* history: batch that wrote each sample (0 = startup zeros)
    ADC_DONE,           \* AtomicBool
    ACT_BUFFER,         \* AtomicUsize
    cs,                 \* owner of cortex_m::interrupt::free: "none", "high", "main"
    spc,                \* position of run_high
    si,                 \* loop index i of run_high
    act,                \* local act of run_high
    nCommit,            \* history: number of completed Sampler cycles, up to MaxBatch
    lastBatch,          \* history: samples of the most recently committed batch
    unread,             \* history: commits since the Transmitter last took a batch
    mpc,                \* position of main
    ti,                 \* loop index i of the serialize loop of main
    bufDouble,          \* receive and transmit buffer of main
    txTag,              \* history: batch of each sample position of bufDouble
    remoteAddr,         \* sender returned by recv_from
    lastRx,             \* history: the datagram recv_from returned, until it is checked
    session,            \* history: sender of the handshake that opened the session
    ended,              \* history: why the last session ended
    sockOpen,           \* transport: socket.is_open()
    binds,              \* number of UdpSocket::new + bind performed
    r,                  \* result of the last send_to
    taken,              \* history: the batch the current take started from
    sentLog,            \* history: batch number of every datagram sent with Ok
    halted,             \* a panic stopped the firmware
    panicAt,            \* history: the statement that panicked
    cycle,              \* history: elapsed time and timer duration of the cycle that ended
    overflowChecks      \* build profile: arithmetic overflow panics

vars == << BUFFER1, BUFFER2, tag1, tag2, ADC_DONE, ACT_BUFFER, cs, spc, si, act,
           nCommit, lastBatch, unread, mpc, ti, bufDouble, txTag, remoteAddr, lastRx,
           session, ended, sockOpen, binds, r, taken, sentLog, halted, panicAt, cycle,
           overflowChecks >>

samplerVars == << spc, si, act, cycle >>
sharedVars  == << BUFFER1, BUFFER2, tag1, tag2, ADC_DONE, ACT_BUFFER, nCommit,
                  lastBatch >>
mainVars    == << mpc, ti, bufDouble, txTag, remoteAddr, lastRx, session, ended,
                  binds, r, taken, sentLog >>

Zeros(n) == [x \in 1..n |-> 0]

(* --------------------------- pure functions ---------------------------- *)

to_le_bytes(v) == << v % 256, v \div 256 >>

\* u16::to_be_bytes
to_be_bytes(v) == << v \div 256, v % 256 >>

handshakeReceived_swapped(buf) == buf[1] = EOT /\ buf[2] = SYN

\* fn handshakeReceived(buf)
handshakeReceived(buf) == buf[1] = SYN /\ buf[2] = EOT

\* u64 subtraction of line 158 in a build without overflow checks
WrappingSub(a, b) == (a - b + U64Modulus) % U64Modulus

\* the buffer selected by the match of line 137: 1 => b1, _ => b2
FillIndex(a) == IF a = 1 THEN 1 ELSE 2

ReadIndex_same(a) == IF a = 1 THEN 1 ELSE 2

\* the buffer selected by the match of line 353: 1 => b2, _ => b1
ReadIndex(a) == IF a = 1 THEN 2 ELSE 1

\* line 134: let mut act = 1, executed in every cycle
ActInit == 1

EnterFree_unmasked(owner) == "none"

\* cortex_m::interrupt::free(|cs| ...): interrupts are masked for the caller
EnterFree(owner) == owner

AfterCheck_reply(ok) == IF ok THEN "poll" ELSE "isopen"

\* lines 338 and 385: where main continues after the handshake test
AfterCheck(ok) == IF ok THEN "poll" ELSE "recv"

AfterSend_retry(res) == IF res = "err" THEN "send" ELSE "poll"

\* lines 369-372: where main continues after send_to returned res
AfterSend(res) == IF res = "err" THEN "recv" ELSE "poll"

\* lines 366 and 374-377: where main continues after socket.is_open()
AfterIsOpen(open) == IF open THEN "send" ELSE "recv"

AfterBind_noContinue(ok) == "recv"

\* lines 327-333: where main continues after socket.bind returned;
\* Err => continue, the outer loop creates and binds a new socket
AfterBind(ok) == IF ok THEN "recv" ELSE "bind"

LeaveFree_held(owner) == owner

\* lines 157 and 364: the closure of interrupt::free returns and the
\* interrupts are enabled again
LeaveFree(owner) == "none"

RecvSender_stale(h) == remoteAddr

\* line 337: let (_n, remoteAddr) = ... binds the sender of the datagram
RecvSender(h) == h

Buffer(n) == IF n = 1 THEN BUFFER1 ELSE BUFFER2
Tag(n)    == IF n = 1 THEN tag1 ELSE tag2

\* session phase of the StreamSession, from the position of main
Phase ==
    IF mpc \in {"recv", "check"} THEN "AwaitingHandshake"
    ELSE IF mpc \in {"poll", "pollwait", "ser", "isopen", "send", "sendchk"}
         THEN "Streaming"
         ELSE "NoSession"

MainCanRun_samePriority == ~halted

\* thread mode runs only while the interrupt executor has nothing to run, or
\* while it holds the critical section (interrupts disabled)
MainCanRun ==
    /\ ~halted
    /\ \/ spc \in {"unspawned", "timer"}
       \/ cs = "main"

(* ------------------------------- Init ---------------------------------- *)

Init ==
    /\ BUFFER1 = None /\ BUFFER2 = None
    /\ tag1 = Zeros(ADC_BUFFER_SIZE) /\ tag2 = Zeros(ADC_BUFFER_SIZE)
    /\ ADC_DONE = FALSE
    /\ ACT_BUFFER = 1
    /\ cs = "none"
    /\ spc = "unspawned" /\ si = 0 /\ act = 1
    /\ nCommit = 0
    /\ lastBatch = Zeros(ADC_BUFFER_SIZE)
    /\ unread = 0
    /\ mpc = "init" /\ ti = 0
    /\ bufDouble = Zeros(UDP_BUFFER_SIZE)
    /\ txTag = Zeros(ADC_BUFFER_SIZE)
    /\ remoteAddr = NoHost
    /\ lastRx = NoRx
    /\ session = NoHost
    /\ ended = "none"
    /\ sockOpen = FALSE
    /\ binds = 0
    /\ r = "none"
    /\ taken = NoTake
    /\ sentLog = <<>>
    /\ halted = FALSE
    /\ panicAt = "none"
    /\ cycle = NoCycle
    /\ overflowChecks \in BOOLEAN

(* ------------------------- Sampler: run_high --------------------------- *)

\* lines 124-131: take the cycle start time, enter interrupt::free, borrow
\* both buffers; as_mut().unwrap() panics on None
SamplerStart ==
    /\ ~halted
    /\ spc = "ready"
    /\ cs = "none"
    /\ IF BUFFER1 = None \/ BUFFER2 = None
       THEN /\ halted' = TRUE
            /\ panicAt' = "unwrap_none"
            /\ UNCHANGED << cs, spc >>
       ELSE /\ cs' = EnterFree("high")
            /\ spc' = "busy"
            /\ UNCHANGED << halted, panicAt >>
    /\ cycle' = NoCycle
    /\ UNCHANGED << si, act, sharedVars, unread, mainVars, sockOpen, overflowChecks >>

\* lines 132-140: delay.delay_us(175), let mut act = 1, select the buffer
SamplerBusyDelay ==
    /\ ~halted
    /\ spc = "busy"
    /\ act' = ActInit
    /\ si' = 0
    /\ spc' = "fill"
    /\ UNCHANGED << cycle, cs, sharedVars, unread, mainVars, sockOpen, halted, panicAt, overflowChecks >>

\* the history counters count the cycles up to MaxBatch; the cycles beyond
\* them repeat the samples of cycle MaxBatch and are counted as that cycle
CountUp(n) == IF n < MaxBatch THEN n + 1 ELSE n

\* values adc.read returns for position i: any sample value in the cycles
\* explored; in the cycles beyond them the value the buffer already holds
ReadValues(i) ==
    IF nCommit < MaxBatch THEN SampleValues ELSE { Buffer(FillIndex(act))[i] }

\* lines 141-143: buffer[i] = adc.read(&mut pin)
SamplerRead ==
    /\ ~halted
    /\ spc = "fill"
    /\ si < ADC_BUFFER_SIZE
    /\ \E v \in ReadValues(si + 1) :
         IF FillIndex(act) = 1
         THEN /\ BUFFER1' = [BUFFER1 EXCEPT ![si + 1] = v]
              /\ tag1' = [tag1 EXCEPT ![si + 1] = CountUp(nCommit)]
              /\ UNCHANGED << BUFFER2, tag2 >>
         ELSE /\ BUFFER2' = [BUFFER2 EXCEPT ![si + 1] = v]
              /\ tag2' = [tag2 EXCEPT ![si + 1] = CountUp(nCommit)]
              /\ UNCHANGED << BUFFER1, tag1 >>
    /\ si' = si + 1
    /\ UNCHANGED << spc, act, cycle, cs, ADC_DONE, ACT_BUFFER, nCommit, lastBatch, unread,
                    mainVars, sockOpen, halted, panicAt, overflowChecks >>

\* lines 144-157: store the other index in ACT_BUFFER, set ADC_DONE, leave
\* interrupt::free
SamplerCommit ==
    /\ ~halted
    /\ spc = "fill"
    /\ si = ADC_BUFFER_SIZE
    /\ ACT_BUFFER' = IF act = 1 THEN 2 ELSE 1
    /\ act' = IF act = 1 THEN 2 ELSE 1
    /\ ADC_DONE' = TRUE
    /\ nCommit' = CountUp(nCommit)
    /\ lastBatch' = Buffer(FillIndex(act))
    /\ unread' = CountUp(unread)
    /\ cs' = LeaveFree("high")
    /\ spc' = "elapsed"
    /\ UNCHANGED << si, cycle, BUFFER1, BUFFER2, tag1, tag2, mainVars, sockOpen, halted,
                    panicAt, overflowChecks >>

TimerDuration_remainder(t) == t

\* line 160: Timer::after(Duration::from_micros(ADC_CYCLE)); the remainder t
\* is used by the commented-out delay of line 161 only
TimerDuration(t) == ADC_CYCLE

\* lines 158-162: t = ADC_CYCLE - elapsed; if t < ADC_CYCLE, Timer::after
SamplerDelay ==
    /\ ~halted
    /\ spc = "elapsed"
    /\ \E e \in ElapsedValues :
         IF e > ADC_CYCLE /\ overflowChecks
            THEN /\ halted' = TRUE
                 /\ panicAt' = "sub_overflow"
                 /\ cycle' = [elapsed |-> e, wait |-> 0]
                 /\ UNCHANGED spc
            ELSE LET t == WrappingSub(ADC_CYCLE, e)
                 IN  /\ spc' = IF t < ADC_CYCLE THEN "timer" ELSE "ready"
                     /\ cycle' = [elapsed |-> e,
                                  wait    |-> IF t < ADC_CYCLE THEN TimerDuration(t) ELSE 0]
                     /\ UNCHANGED << halted, panicAt >>
    /\ UNCHANGED << si, act, cs, sharedVars, unread, mainVars, sockOpen, overflowChecks >>

\* the timer of line 160 expires and pends the UART4 interrupt
SamplerTimer ==
    /\ ~halted
    /\ spc = "timer"
    /\ nCommit < MaxBatch
    /\ spc' = "ready"
    /\ cycle' = NoCycle
    /\ UNCHANGED << si, act, cs, sharedVars, unread, mainVars, sockOpen, halted,
                    panicAt, overflowChecks >>

(* ---------------------- main: setup and outer driver ------------------- *)

replace_none(opt, v) == None

\* Option::replace of lines 241-242: the option holds Some(v) afterwards
replace(opt, v) == v

\* lines 239-244: both buffers are replaced by Some([0; ADC_BUFFER_SIZE])
InitBuffers ==
    /\ MainCanRun
    /\ mpc = "init"
    /\ BUFFER1' = replace(BUFFER1, Zeros(ADC_BUFFER_SIZE))
    /\ BUFFER2' = replace(BUFFER2, Zeros(ADC_BUFFER_SIZE))
    /\ mpc' = "spawn"
    /\ UNCHANGED << tag1, tag2, ADC_DONE, ACT_BUFFER, nCommit, lastBatch, unread, cs,
                    samplerVars, ti, bufDouble, txTag, remoteAddr, lastRx, session, ended, binds, r,
                    taken, sentLog, sockOpen, halted, panicAt, overflowChecks >>

\* lines 304-309: EXECUTOR_HIGH.start(UART4) and spawn(run_high): the task is
\* queued and the interrupt is pended
Spawn ==
    /\ MainCanRun
    /\ mpc = "spawn"
    /\ spc' = "ready"
    /\ mpc' = "bind"
    /\ UNCHANGED << si, act, cycle, cs, sharedVars, unread, ti, bufDouble, txTag, remoteAddr,
                    lastRx, session, ended, binds, r, taken, sentLog, sockOpen, halted, panicAt, overflowChecks >>

\* lines 324-333: UdpSocket::new, socket.bind(UDP_PORT); Err => continue
Bind ==
    /\ MainCanRun
    /\ mpc = "bind"
    /\ binds < MaxBind
    /\ binds' = binds + 1
    /\ \E ok \in BOOLEAN :
         /\ sockOpen' = ok
         /\ mpc' = AfterBind(ok)
    /\ UNCHANGED << cs, samplerVars, sharedVars, unread, ti, bufDouble, txTag,
                    remoteAddr, lastRx, session, ended, r, taken, sentLog, halted, panicAt, overflowChecks >>

\* bytes of buf after recv_from copied the datagram d to its front
RecvInto(buf, d) ==
    [x \in 1..UDP_BUFFER_SIZE |-> IF x <= Len(d) THEN d[x] ELSE buf[x]]

\* line 337: socket.recv_from(&mut bufDouble).await.unwrap()
RecvFrom ==
    /\ MainCanRun
    /\ mpc = "recv"
    /\ \/ \E d \in Datagrams, h \in Hosts :
            /\ bufDouble' = RecvInto(bufDouble, d)
            /\ txTag' = [x \in 1..ADC_BUFFER_SIZE |->
                            IF 2 * x - 1 <= Len(d) THEN RxTag ELSE txTag[x]]
            /\ remoteAddr' = RecvSender(h)
            /\ lastRx' = [data |-> d, from |-> h]
            /\ mpc' = "check"
            /\ UNCHANGED << halted, panicAt >>
       \/ /\ halted' = TRUE
          /\ panicAt' = "recv_from"
          /\ UNCHANGED << bufDouble, txTag, remoteAddr, lastRx, mpc >>
    /\ UNCHANGED << cs, samplerVars, sharedVars, unread, ti, session, ended, binds, r,
                    taken, sentLog, sockOpen, overflowChecks >>

\* lines 338-340 and 385: if handshakeReceived(&bufDouble) enter the
\* Transmitter loop, else wait for the next datagram
HandshakeCheck ==
    /\ MainCanRun
    /\ mpc = "check"
    /\ mpc' = AfterCheck(handshakeReceived(bufDouble))
    /\ IF handshakeReceived(bufDouble)
       THEN /\ session' = lastRx.from
            /\ ended' = "none"
            /\ UNCHANGED remoteAddr
       ELSE /\ remoteAddr' = NoHost
            /\ UNCHANGED << session, ended >>
    /\ lastRx' = NoRx
    /\ UNCHANGED << cs, samplerVars, sharedVars, unread, ti, bufDouble, txTag,
                    binds, r, taken, sentLog, sockOpen, halted, panicAt, overflowChecks >>

(* -------------------------- main: Transmitter -------------------------- *)

\* lines 342-344: while !ADC_DONE.load() { Timer::after(ADC_CYCLE / 2).await }
\* The condition is evaluated on entry and again each time the timer of line
\* 343 expires; "pollwait" is main suspended on that timer.
Poll ==
    /\ MainCanRun
    /\ mpc \in {"poll", "pollwait"}
    /\ Len(sentLog) < MaxSend
    /\ mpc' = IF ADC_DONE THEN "enter" ELSE "pollwait"
    /\ UNCHANGED << cs, samplerVars, sharedVars, unread, ti, bufDouble, txTag,
                    remoteAddr, lastRx, session, ended, binds, r, taken, sentLog, sockOpen, halted,
                    panicAt, overflowChecks >>

\* lines 345-351: enter interrupt::free and borrow both buffers
TxEnter ==
    /\ MainCanRun
    /\ mpc = "enter"
    /\ cs = "none"
    /\ IF BUFFER1 = None \/ BUFFER2 = None
       THEN /\ halted' = TRUE
            /\ panicAt' = "unwrap_none"
            /\ UNCHANGED << cs, mpc, ti, taken, unread >>
       ELSE /\ cs' = EnterFree("main")
            /\ mpc' = "ser"
            /\ ti' = 0
            /\ taken' = [batch |-> nCommit, pending |-> unread, samples |-> lastBatch]
            /\ unread' = 0
            /\ UNCHANGED << halted, panicAt >>
    /\ UNCHANGED << samplerVars, sharedVars, bufDouble, txTag, remoteAddr, lastRx,
                    session, ended, binds, r, sentLog, sockOpen, overflowChecks >>

BufferAfterRead_consumed(buf, i) == [buf EXCEPT ![i] = 0]

\* line 359: buffer[i].to_be_bytes() copies the element out of the buffer
\* borrowed by as_mut(); the buffer keeps it
BufferAfterRead(buf, i) == buf

\* lines 353-363: one iteration of the serialize loop
TxSerialize ==
    /\ MainCanRun
    /\ mpc = "ser"
    /\ ti < ADC_BUFFER_SIZE
    /\ BUFFER1' = IF ReadIndex(ACT_BUFFER) = 1 THEN BufferAfterRead(BUFFER1, ti + 1)
                                               ELSE BUFFER1
    /\ BUFFER2' = IF ReadIndex(ACT_BUFFER) = 1 THEN BUFFER2
                                               ELSE BufferAfterRead(BUFFER2, ti + 1)
    /\ LET buffer == Buffer(ReadIndex(ACT_BUFFER))
           bytes  == to_be_bytes(buffer[ti + 1])
           j      == ti * 2
       IN  /\ bufDouble' = [bufDouble EXCEPT ![j + 1] = bytes[1], ![j + 2] = bytes[2]]
           /\ txTag' = [txTag EXCEPT ![ti + 1] = Tag(ReadIndex(ACT_BUFFER))[ti + 1]]
    /\ ti' = ti + 1
    /\ UNCHANGED << cs, samplerVars, tag1, tag2, ADC_DONE, ACT_BUFFER, nCommit, lastBatch,
                    unread, mpc, remoteAddr, lastRx, session, ended, binds, r, taken,
                    sentLog, sockOpen, halted, panicAt, overflowChecks >>

\* line 364: the closure returns, interrupt::free ends
TxLeave ==
    /\ MainCanRun
    /\ mpc = "ser"
    /\ ti = ADC_BUFFER_SIZE
    /\ cs' = LeaveFree("main")
    /\ mpc' = "isopen"
    /\ UNCHANGED << samplerVars, sharedVars, unread, ti, bufDouble, txTag, remoteAddr,
                    lastRx, session, ended, binds, r, taken, sentLog, sockOpen, halted, panicAt, overflowChecks >>

\* lines 366 and 374-377: if socket.is_open() start send_to, else break
IsOpen ==
    /\ MainCanRun
    /\ mpc = "isopen"
    /\ mpc' = AfterIsOpen(sockOpen)
    /\ IF sockOpen
       THEN UNCHANGED << remoteAddr, taken, session, ended >>
       ELSE /\ remoteAddr' = NoHost
            /\ taken' = NoTake
            /\ session' = NoHost
            /\ ended' = "not_open"
    /\ UNCHANGED << cs, samplerVars, sharedVars, unread, ti, bufDouble, txTag,
                    lastRx, binds, r, sentLog, sockOpen, halted, panicAt, overflowChecks >>

\* line 368: socket.send_to(&bufDouble, remoteAddr).await completes
SendTo ==
    /\ MainCanRun
    /\ mpc = "send"
    /\ \E res \in {"ok", "err"} :
         /\ r' = res
         /\ sentLog' = IF res = "ok" THEN Append(sentLog, taken.batch) ELSE sentLog
    /\ mpc' = "sendchk"
    /\ UNCHANGED << cs, samplerVars, sharedVars, unread, ti, bufDouble, txTag,
                    remoteAddr, lastRx, session, ended, binds, taken, sockOpen, halted, panicAt, overflowChecks >>

\* lines 369-372: if let Err(e) = r { break }
SendCheck ==
    /\ MainCanRun
    /\ mpc = "sendchk"
    /\ mpc' = AfterSend(r)
    /\ IF r = "err"
       THEN /\ remoteAddr' = NoHost
            /\ session' = NoHost
            /\ ended' = "send_error"
       ELSE UNCHANGED << remoteAddr, session, ended >>
    /\ r' = "none"
    /\ taken' = NoTake
    /\ UNCHANGED << cs, samplerVars, sharedVars, unread, ti, bufDouble, txTag,
                    lastRx, binds, sentLog, sockOpen, halted, panicAt, overflowChecks >>

(* ------------------------------ transport ------------------------------ *)

\* the network stack closes the socket; is_open() answers false from then on
TransportClose ==
    /\ ~halted
    /\ sockOpen
    /\ sockOpen' = FALSE
    /\ UNCHANGED << cs, samplerVars, sharedVars, unread, mainVars, halted,
                    panicAt, overflowChecks >>

(* --------------------------- specification ----------------------------- *)

Next ==
    \/ SamplerStart \/ SamplerBusyDelay \/ SamplerRead \/ SamplerCommit
    \/ SamplerDelay \/ SamplerTimer
    \/ InitBuffers \/ Spawn \/ Bind \/ RecvFrom \/ HandshakeCheck
    \/ Poll \/ TxEnter \/ TxSerialize \/ TxLeave
    \/ IsOpen \/ SendTo \/ SendCheck
    \/ TransportClose

Spec == Init /\ [][Next]_vars

\* the steps of run_high, including the expiry of its timer
SamplerNext ==
    \/ SamplerStart \/ SamplerBusyDelay \/ SamplerRead \/ SamplerCommit
    \/ SamplerDelay \/ SamplerTimer

\* the steps of main that need no datagram from a client
MainNext ==
    \/ InitBuffers \/ Spawn \/ Bind \/ HandshakeCheck
    \/ Poll \/ TxEnter \/ TxSerialize \/ TxLeave
    \/ IsOpen \/ SendTo \/ SendCheck

\* Scheduling: the interrupt executor runs run_high whenever it is ready and
\* interrupts are enabled, and its timer expires (weak fairness); thread mode
\* gets the processor whenever run_high is suspended on its timer, which
\* happens again and again only if run_high does suspend (strong fairness).
\* No client is obliged to send a datagram, so RecvFrom is not fair.
FairSpec == Spec /\ WF_vars(SamplerNext) /\ SF_vars(MainNext)

(* ------------------------------ properties ----------------------------- *)

Streamed == mpc \in {"isopen", "send", "sendchk"}

\* the big-endian decoding a client applies to a byte pair
from_be_bytes(b) == b[1] * 256 + b[2]

IsToken(d) == Len(d) >= 2 /\ d[1] = SYN /\ d[2] = EOT

\* C1 (no tearing): the samples copied into the transmit buffer by one take
\* all come from one single batch, and that batch is a completed one; this
\* holds during the copy for the samples copied so far and afterwards for
\* the whole buffer that is handed to send_to.
C1_NoTearing ==
    mpc \in {"ser", "isopen", "send", "sendchk"} =>
        \E b \in 1..nCommit :
            \A x \in 1..(IF mpc = "ser" THEN ti ELSE ADC_BUFFER_SIZE) : txTag[x] = b

\* a datagram went out although the Sampler completed a further cycle after
\* startup, i.e. Sampler cycles and takes were interleaved
C1_Witness ==
    /\ mpc = "sendchk" /\ r = "ok"
    /\ nCommit >= 2
    /\ txTag[1] = 2

\* C2 (no double-delivery): after a take with no commit since, the ready flag
\* ADC_DONE is clear, and no committed batch is carried by more than one
\* datagram.
C2_NoDoubleDelivery ==
    /\ (Streamed /\ unread = 0) => ~ADC_DONE
    /\ \A b \in 1..MaxBatch :
          Cardinality({x \in DOMAIN sentLog : sentLog[x] = b}) <= 1

\* C3 (last value wins): when two or more batches were committed since the
\* previous take, the take returns the samples of the latest committed batch
\* only, and none of an older one.
C3_LastValueWins ==
    (Streamed /\ taken.pending >= 2) =>
        \A x \in 1..ADC_BUFFER_SIZE :
            /\ txTag[x] = taken.batch
            /\ from_be_bytes(<< bufDouble[2 * x - 1], bufDouble[2 * x] >>)
                   = taken.samples[x]

C3_Witness ==
    /\ mpc = "sendchk" /\ r = "ok"
    /\ taken.pending >= 2
    /\ taken.samples[1] # 0

\* C4 (buffer separation): the buffer the Transmitter reads is not the buffer
\* the Sampler fills in its current or next cycle, and the Sampler does not
\* start to write into the buffer that holds the latest committed batch
\* while that batch is unread.
C4_BufferSeparation ==
    /\ mpc = "ser" => ReadIndex(ACT_BUFFER) # FillIndex(ActInit)
    /\ (spc = "fill" /\ si = 0 /\ ADC_DONE /\ unread > 0) =>
           Tag(FillIndex(act))[ADC_BUFFER_SIZE] # nCommit

\* C5 (handshake admission): when main tests a received datagram of at least
\* two bytes that starts with SYN, EOT, it enters the Transmitter loop with
\* the sender of that datagram as remote endpoint; when it tests the
\* datagram [0, 0] it goes back to waiting for a handshake.
C5_HandshakeAdmission ==
    [][ (mpc = "check" /\ mpc' # "check") =>
            /\ IsToken(lastRx.data) =>
                   (mpc' = "poll" /\ remoteAddr' = lastRx.from /\ lastRx.from \in Hosts)
            /\ lastRx.data = << 0, 0 >> => mpc' = "recv" ]_vars

\* a handshake with a trailing byte was accepted from hostB
C5_Witness ==
    /\ mpc = "poll"
    /\ remoteAddr = "hostB"
    /\ bufDouble[1] = SYN /\ bufDouble[2] = EOT /\ bufDouble[3] = 0
    /\ txTag[2] = RxTag

\* C6 (handshake rejection): when main tests a received datagram whose own
\* bytes do not start with SYN, EOT, it goes back to waiting for a handshake.
C6_HandshakeRejection ==
    [][ (mpc = "check" /\ mpc' # "check" /\ ~IsToken(lastRx.data)) =>
            mpc' = "recv" ]_vars

\* C7 (no send outside a session): a datagram is handed to the transport
\* only in a session that an accepted handshake opened and that has not
\* ended, and main is never in send_to without such a session.
C7_NoSendWithoutHandshake ==
    [][ /\ sentLog' # sentLog => (session \in Hosts /\ Phase = "Streaming")
        /\ mpc' = "send" => session' \in Hosts
        /\ Phase' = "AwaitingHandshake" => session' = NoHost ]_vars

\* the second datagram of a run was sent to the host whose handshake opened
\* the session
C7_Witness ==
    /\ mpc = "sendchk" /\ r = "ok"
    /\ session = "hostA" /\ remoteAddr = "hostA"
    /\ Len(sentLog) = 2

\* C8 (serialization): the transmit buffer has 2 * ADC_BUFFER_SIZE bytes and
\* the byte pair of every sample position is the high byte followed by the
\* low byte of the sample of the batch taken.
C8_SerializationRoundTrip ==
    Streamed =>
        /\ Len(bufDouble) = 2 * ADC_BUFFER_SIZE
        /\ \A x \in 1..ADC_BUFFER_SIZE :
              /\ bufDouble[2 * x - 1] \in 0..255
              /\ bufDouble[2 * x] \in 0..255
              /\ bufDouble[2 * x - 1] * 256 + bufDouble[2 * x] = taken.samples[x]

C8_Witness ==
    /\ mpc = "sendchk" /\ r = "ok"
    /\ taken.samples[1] = 260
    /\ bufDouble[1] = 1 /\ bufDouble[2] = 4

\* C9 (teardown on send error): when send_to returned an error, main leaves
\* the Transmitter loop and waits for a handshake; it does not send again,
\* and it neither creates nor binds a socket.
C9_SendErrorTeardown ==
    [][ (mpc = "sendchk" /\ r = "err" /\ mpc' # "sendchk") =>
            /\ mpc' = "recv"
            /\ binds' = binds
            /\ sockOpen' = sockOpen
            /\ sentLog' = sentLog
            /\ session' = NoHost ]_vars

\* main waits for a handshake after a send error, on the socket of the one
\* successful bind
C9_Witness ==
    /\ mpc = "recv"
    /\ ended = "send_error"
    /\ binds = 1

\* C10 (socket not open): when is_open() answers false in the Transmitter
\* loop, main binds a new socket before it waits for a handshake again.
C10_RebindWhenNotOpen ==
    [][ (mpc = "isopen" /\ ~sockOpen /\ mpc' # "isopen") => mpc' = "bind" ]_vars

\* C11 (bind failure is retried, never fatal): a failed bind does not stop
\* the firmware and leads to the next bind attempt; main leaves the bind loop
\* only by a bind that succeeded, and then it waits for a handshake.
C11_BindRetried ==
    [][ /\ (binds' = binds + 1 /\ ~sockOpen') => (mpc' = "bind" /\ ~halted')
        /\ (binds' = binds + 1 /\ sockOpen') => mpc' = "recv"
        /\ (mpc = "bind" /\ mpc' # "bind") =>
               (binds' = binds + 1 /\ sockOpen' /\ Phase' = "AwaitingHandshake") ]_vars

\* main waits for a handshake after a failed and then a successful bind
C11_Witness ==
    /\ mpc = "recv"
    /\ binds >= 2
    /\ sockOpen
    /\ ~halted

\* C12 (no transport error is fatal): an error returned by recv_from while
\* main waits for a handshake does not stop the firmware.
C12_RecvErrorNotFatal ==
    panicAt # "recv_from"

\* C13 (Sampler independence): whatever the session and the transport do,
\* the Sampler goes on completing cycles; within the cycles explored it
\* reaches the last one, unless it is stopped by its own subtraction
\* overflow (C15).
C13_SamplerKeepsCommitting ==
    <>(nCommit = MaxBatch \/ panicAt = "sub_overflow")

\* C14 (cadence): when a cycle took less than ADC_CYCLE, the Sampler waits
\* for the remainder only, so that elapsed time plus wait is ADC_CYCLE.
C14_Cadence ==
    (spc = "timer" /\ cycle.elapsed < ADC_CYCLE) =>
        cycle.elapsed + cycle.wait = ADC_CYCLE

\* C15 (overrun is not fatal): when a cycle took ADC_CYCLE or longer, the
\* subtraction of line 158 does not stop the Sampler and the next cycle is
\* due at once, without a timer wait.
C15_OverrunNotFatal ==
    cycle.elapsed >= ADC_CYCLE =>
        /\ panicAt # "sub_overflow"
        /\ ~halted => spc = "ready"
        /\ cycle.wait = 0

\* C16 (priority preemption): main takes a step only while run_high is not
\* spawned or is suspended on its timer, or while main holds the critical
\* section; and whenever a cycle of run_high is due and main does not hold
\* the critical section, the cycle can start.
C16_PriorityPreemption ==
    [][ /\ (mainVars' # mainVars \/ (panicAt # "recv_from" /\ panicAt' = "recv_from")) =>
               (spc \in {"unspawned", "timer"} \/ cs = "main")
        /\ (spc = "ready" /\ cs = "none" /\ ~halted) => ENABLED SamplerStart ]_vars

\* a Sampler cycle runs while main stands between its poll of ADC_DONE and
\* its critical section
C16_Witness ==
    /\ spc = "fill"
    /\ cs = "high"
    /\ mpc = "enter"
    /\ nCommit >= 1

\* C17 (commit flips the buffers): every commit changes ACT_BUFFER, and the
\* buffer filled in a cycle is not the one filled in the cycle before, so
\* the other buffer still holds the previous batch at the commit.
C17_CommitFlips ==
    [][ nCommit' = nCommit + 1 =>
            /\ ACT_BUFFER' # ACT_BUFFER
            /\ nCommit >= 1 => Tag(3 - FillIndex(act))[1] = nCommit ]_vars

C19_NoSuspensionInSection ==
    /\ spc = "timer" => cs # "high"
    /\ mpc \in {"pollwait", "recv", "send"} => cs # "main"

\* both tasks are suspended, main in send_to, after a commit and a take
C19_Witness ==
    /\ spc = "timer"
    /\ mpc = "send"
    /\ cs = "none"
    /\ taken.batch >= 1

MainSuspended == mpc \in {"pollwait", "recv", "send"}

\* C21 (bind retry waits): after a failed bind main is suspended on a delay
\* before it binds again; no bind attempt starts from the position a failed
\* bind left main in.
C21_BindRetryWaits ==
    [][ /\ (binds' = binds + 1 /\ ~sockOpen') => MainSuspended'
        /\ (binds >= 1 /\ binds' = binds + 1) => MainSuspended ]_vars

\* C22 (delivery follows commit order): every datagram handed to the
\* transport carries the samples of one committed batch, and that batch was
\* committed no earlier than the batch of any datagram sent before it, in
\* this session or in an earlier one.
C22_DeliveryFollowsCommitOrder ==
    [][ sentLog' # sentLog =>
            LET n == Len(sentLog')
            IN  /\ \A x \in 1..ADC_BUFFER_SIZE : txTag[x] = sentLog'[n]
                /\ \A k \in 1..(n - 1) : sentLog'[k] <= sentLog'[n] ]_vars

\* the first batch was sent, then the second one
C22_Witness ==
    /\ sentLog = << 1, 2 >>
    /\ txTag[ADC_BUFFER_SIZE] = 2

\* C23 (frame condition across priorities): the steps of the take (entering
\* the section, serializing, leaving it) leave BUFFER1, BUFFER2 and
\* ACT_BUFFER as they are, and every step of a Sampler cycle leaves the
\* session phase, the remote endpoint and bufDouble as they are.
C23_FrameAcrossPriorities ==
    [][ /\ (mpc \in {"enter", "ser"} /\ << mpc, ti >>' # << mpc, ti >>) =>
               UNCHANGED << BUFFER1, BUFFER2, ACT_BUFFER >>
        /\ (spc # "unspawned" /\ << spc, si >>' # << spc, si >>) =>
               (Phase' = Phase /\ UNCHANGED << remoteAddr, bufDouble >>) ]_vars

\* a take copied a non-zero batch and the next Sampler cycle has started
\* while main stands before send_to
C23_Witness ==
    /\ mpc = "isopen"
    /\ spc = "busy"
    /\ BUFFER1[1] = 260 /\ bufDouble[1] = 1
    /\ remoteAddr = "hostA"

\* C24 (no datagram before the first commit): main enters a take only after
\* a Sampler cycle completed and set ADC_DONE, every sample position of a
\* buffer handed to send_to was written by a cycle that had completed when
\* the take began (none holds the startup zeros or received bytes), and
\* every datagram sent carries a committed batch.
C24_NoDatagramBeforeFirstCommit ==
    /\ mpc \in {"enter", "ser", "isopen", "send", "sendchk"} =>
           (ADC_DONE /\ nCommit >= 1)
    /\ Streamed => \A x \in 1..ADC_BUFFER_SIZE : txTag[x] \in 1..taken.batch
    /\ \A k \in DOMAIN sentLog : sentLog[k] >= 1

\* the first datagram of a run went out and carries the first batch, taken
\* right after the handshake
C24_Witness ==
    /\ mpc = "sendchk" /\ r = "ok"
    /\ sentLog = << 1 >>
    /\ nCommit = 1
    /\ txTag[1] = 1

\* the RefMut guards br1, br2 of run_high live from line 128 to the end of
\* the closure (line 157)
SamplerBorrows == spc \in {"busy", "fill"}

\* the RefMut guards br1, br2 of main live from line 348 to the end of the
\* closure (line 364)
MainBorrows == mpc = "ser"

\* C25 (buffer access never panics): no as_mut().unwrap() finds None, both
\* buffers hold an array from the spawn of the Sampler on and whenever main
\* is about to read or reads them, and the Sampler and main never hold
\* their RefCell borrows of the buffers at the same time.
C25_BufferAccessNeverPanics ==
    /\ panicAt # "unwrap_none"
    /\ spc # "unspawned" => (BUFFER1 # None /\ BUFFER2 # None)
    /\ mpc \in {"enter", "ser"} => (BUFFER1 # None /\ BUFFER2 # None)
    /\ ~(SamplerBorrows /\ MainBorrows)

\* main holds its borrows in the middle of the serialize loop, after the
\* Sampler borrowed and released the buffers twice
C25_Witness ==
    /\ mpc = "ser" /\ ti = 1
    /\ spc = "timer"
    /\ nCommit = 2
    /\ panicAt = "none"

\* C26 (Transmitter progress): once a handshake is accepted, main goes on
\* sending: as long as datagrams remain to be explored, the session delivers
\* the next ones unless the transport fails (socket closed, send error),
\* whatever the durations of the Sampler cycles are.
C26_TransmitterProgress ==
    (Phase = "Streaming" /\ Len(sentLog) < MaxSend)
        ~> \/ Len(sentLog) = MaxSend
           \/ Phase # "Streaming"
           \/ ~sockOpen
           \/ r = "err"

====
